---- MODULE Spec2Model ----
(***************************************************************************)
(* A model of libzfs_core/_nvlist.py: the conversion between a Python     *)
(* dictionary and a C nvlist_t (nvlist_in / _dict_to_nvlist /              *)
(* _nvlist_add_array) and back (nvlist_out / _nvlist_to_dict), with the    *)
(* memory management of the nvlist_t handles.                              *)
(***************************************************************************)
EXTENDS Integers, Sequences, FiniteSets, TLC

\* Bounds of the model.
MaxLen == 2      \* longest list value
MaxDepth == 1    \* deepest nesting of dictionary values
MaxFault == 6    \* largest index of a library call that is made to fail

(***************************************************************************)
(* Python values.  A value is a record whose field kind is the name of     *)
(* its Python type (type(v).__name__).                                     *)
(***************************************************************************)
VNone == [kind |-> "NoneType"]
VBool(b) == [kind |-> "bool", b |-> b]
VInt(n) == [kind |-> "int", n |-> n]
VNv(suffix, n) == [kind |-> "NvInteger", suffix |-> suffix, n |-> n]
VStr(s) == [kind |-> "str", s |-> s]
VFloat == [kind |-> "float"]
VList(elems) == [kind |-> "list", elems |-> elems]
\* A dict is the sequence of its items, in iteration order; keys are distinct.
VDict(items) == [kind |-> "dict", items |-> items]
Item(k, v) == [k |-> k, v |-> v]

\* type(v).__name__
TypeName(v) == v.kind

\* NvInteger (libzfs_core/ctypes.py) is a class of its own: it is not a
\* numbers.Integral.  Only then are the NvInteger branches of the two
\* dispatches reachable.
NvIntegerIsIntegral == FALSE

\* isinstance(v, numbers.Integral): int and its subclass bool.
IsIntegral(v) ==
    \/ v.kind \in {"int", "bool"}
    \/ (v.kind = "NvInteger" /\ NvIntegerIsIntegral)

\* IntOf with every bool passed as true.
IntOf_Truthy(v) == IF v.kind = "bool" THEN 1 ELSE v.n

\* The value of an Integral as the C integer cffi converts it to.
IntOf(v) == IF v.kind = "bool" THEN (IF v.b THEN 1 ELSE 0) ELSE v.n

\* PropNameToTypeStr without its table.
PropNameToTypeStr_NoTable(key) == "uint64"

\* _prop_name_to_type_str.get(key, "uint64")
PropNameToTypeStr(key) ==
    CASE key = "rewind-request" -> "uint32"
      [] key = "type" -> "uint32"
      [] key = "N_MORE_ERRORS" -> "int32"
      [] key = "pool_context" -> "int32"
      [] OTHER -> "uint64"

(***************************************************************************)
(* The nvpair library.  An nvpair is a record with a name, a type tag and, *)
(* by type, a payload: n (an integer, also boolean_t), s (a string), nv    *)
(* (the pairs of an embedded nvlist), an (an integer array), sa (a string  *)
(* array), nva (an array of embedded nvlists).  DATA_TYPE_BOOLEAN has no   *)
(* payload.                                                                *)
(***************************************************************************)
IntSuffixes ==
    {"byte", "int8", "uint8", "int16", "uint16", "int32", "uint32", "int64", "uint64"}

\* The DATA_TYPE_*_ARRAY tag of a scalar tag.
ArrayTag(suffix) ==
    CASE suffix = "boolean_value" -> "boolean_array"
      [] suffix = "byte" -> "byte_array"
      [] suffix = "int8" -> "int8_array"
      [] suffix = "uint8" -> "uint8_array"
      [] suffix = "int16" -> "int16_array"
      [] suffix = "uint16" -> "uint16_array"
      [] suffix = "int32" -> "int32_array"
      [] suffix = "uint32" -> "uint32_array"
      [] suffix = "int64" -> "int64_array"
      [] suffix = "uint64" -> "uint64_array"
      [] suffix = "string" -> "string_array"
      [] suffix = "nvlist" -> "nvlist_array"

\* nvpair_type_is_array
NvpairTypeIsArray(t) ==
    t \in {"boolean_array", "byte_array", "int8_array", "uint8_array",
           "int16_array", "uint16_array", "int32_array", "uint32_array",
           "int64_array", "uint64_array", "string_array", "nvlist_array"}

\* Whether cffi converts the Python integer n to the C type of a tag; it
\* raises OverflowError otherwise.  boolean_t is an enum (unsigned int).
\* The integers of the model are far below 2^31.
Fits(suffix, n) ==
    CASE suffix \in {"byte", "uint8"} -> n >= 0 /\ n <= 255
      [] suffix = "int8" -> n >= -128 /\ n <= 127
      [] suffix = "uint16" -> n >= 0 /\ n <= 65535
      [] suffix = "int16" -> n >= -32768 /\ n <= 32767
      [] suffix \in {"uint32", "uint64", "boolean_value"} -> n >= 0
      [] suffix \in {"int32", "int64"} -> TRUE

(***************************************************************************)
(* The state an encode runs in: the heap of nvlist_t containers allocated, *)
(* the number of fallible library calls made, the pending exception (<<>>  *)
(* when none) and the status of the last nvlist_add call.  A container     *)
(* has its pairs, whether a finalizer is registered for its handle         *)
(* (_ffi.gc), how often nvlist_free was called on it, and whether it went  *)
(* into a successful nvlist_add_nvlist / nvlist_add_nvlist_array.          *)
(***************************************************************************)
NoErr == <<>>
ENOMEM == 12

NewContainer == [entries |-> <<>>, gc |-> FALSE, freed |-> 0, attached |-> FALSE]

EmptyHeap == [heap |-> <<>>, calls |-> 0, err |-> NoErr, ret |-> 0]

Raise(st, e) == [st EXCEPT !.err = e]

\* _lib.nvlist_alloc(nvlistp, 1, 0); the call number f fails.
LibNvlistAlloc(st, f) ==
    IF st.calls + 1 = f
    THEN [st EXCEPT !.calls = @ + 1, !.ret = ENOMEM]
    ELSE [st EXCEPT !.calls = @ + 1, !.ret = 0, !.heap = Append(@, NewContainer)]

\* FfiGc that registers no finalizer.
FfiGc_NoFinalizer(st, c) == st

\* _ffi.gc(nvlistp[0], _lib.nvlist_free)
FfiGc(st, c) == [st EXCEPT !.heap[c].gc = TRUE]

\* The last reference to the handle of container c goes away: the finalizer
\* registered for it, if any, calls nvlist_free.
DropHandle(st, c) ==
    IF st.heap[c].gc THEN [st EXCEPT !.heap[c].freed = @ + 1] ELSE st

RECURSIVE DropHandles(_, _)
DropHandles(st, ids) ==
    IF ids = <<>> THEN st ELSE DropHandles(DropHandle(st, Head(ids)), Tail(ids))

\* NV_UNIQUE_NAME: adding a pair removes the pairs of the same name.
SelectOthers(entries, name) == SelectSeq(entries, LAMBDA p : p.name # name)

\* _lib.nvlist_add_*(nvlist, ...): the pair is copied into the nvlist; the
\* call number f fails and leaves the nvlist as it was.
LibNvlistAdd(st, f, nvlist, pair) ==
    IF st.calls + 1 = f
    THEN [st EXCEPT !.calls = @ + 1, !.ret = ENOMEM]
    ELSE [st EXCEPT !.calls = @ + 1, !.ret = 0,
                    !.heap[nvlist].entries = Append(SelectOthers(@, pair.name), pair)]

\* nvlist_add_nvlist / nvlist_add_nvlist_array copy the nvlists they are given.
RECURSIVE MarkAttached(_, _)
MarkAttached(st, ids) ==
    IF st.ret # 0 \/ ids = <<>> THEN st
    ELSE MarkAttached([st EXCEPT !.heap[Head(ids)].attached = TRUE], Tail(ids))

\* if ret != 0: raise MemoryError('nvlist_add failed')
CheckRet(st) ==
    IF st.err = NoErr /\ st.ret # 0
    THEN Raise(st, <<"MemoryError", "nvlist_add failed">>)
    ELSE st

\* cfunc(nvlist, k, n) of an integer type: cffi converts n first.
AddInteger(st, f, nvlist, k, suffix, n) ==
    IF ~Fits(suffix, n) THEN Raise(st, <<"OverflowError">>)
    ELSE LibNvlistAdd(st, f, nvlist, [name |-> k, type |-> suffix, n |-> n])

\* AddIntegerArray that ignores the width resolved and takes the default.
AddIntegerArray_DefaultWidth(st, f, nvlist, k, suffix, ns) ==
    IF \E i \in DOMAIN ns : ~Fits("uint64", ns[i]) THEN Raise(st, <<"OverflowError">>)
    ELSE LibNvlistAdd(st, f, nvlist, [name |-> k, type |-> "uint64_array", an |-> ns])

\* cfunc(nvlist, key, array, len(array)) of an integer array type.
AddIntegerArray(st, f, nvlist, k, suffix, ns) ==
    IF \E i \in DOMAIN ns : ~Fits(suffix, ns[i]) THEN Raise(st, <<"OverflowError">>)
    ELSE LibNvlistAdd(st, f, nvlist, [name |-> k, type |-> ArrayTag(suffix), an |-> ns])

(***************************************************************************)
(* Encoding: nvlist_in, _dict_to_nvlist, _nvlist_add_array.                *)
(***************************************************************************)
\* The first element after the specimen that fails the check of the loop
\* of _nvlist_add_array, 0 when there is none.
FirstMismatch(array) ==
    LET specimen == array[1]
        is_integer == IsIntegral(specimen)
        bad == {i \in 2..Len(array) :
                   /\ ~(is_integer /\ IsIntegral(array[i]))
                   /\ TypeName(array[i]) # TypeName(specimen)}
    IN IF bad = {} THEN 0 ELSE CHOOSE i \in bad : \A j \in bad : i <= j

\* An empty list that is skipped instead.
SpecimenOfEmpty_Skip(st) == st

\* specimen = array[0] of an empty list
SpecimenOfEmpty(st) == Raise(st, <<"IndexError", "list index out of range">>)

RECURSIVE NvlistInEnter(_, _, _)
RECURSIVE DictItemsToNvlist(_, _, _, _, _)
RECURSIVE NvlistAddArray(_, _, _, _, _)
RECURSIVE AllocElems(_, _, _, _, _)
RECURSIVE EncodeItem(_, _, _, _, _)

\* _dict_to_nvlist(props, nvlist): the items from the i-th on.
DictItemsToNvlist(items, i, nvlist, st, f) ==
    IF st.err # NoErr \/ i > Len(items) THEN st
    ELSE LET k == items[i].k
             v == items[i].v
         IN IF k.kind # "str"
            THEN Raise(st, <<"TypeError", "Unsupported key type", TypeName(k)>>)
            ELSE DictItemsToNvlist(items, i + 1, nvlist,
                                   CheckRet(EncodeItem(k.s, v, nvlist, st, f)), f)

DictToNvlist(props, nvlist, st, f) == DictItemsToNvlist(props.items, 1, nvlist, st, f)

\* nvlist_in(props) up to its yield.  The container yielded is the one
\* allocated first, Len(st.heap) + 1; when the body raises, the handle is
\* dropped with the generator's frame.
NvlistInEnter(props, st, f) ==
    LET s1 == LibNvlistAlloc(st, f)
        nvlist == Len(s1.heap)
        s2 == DictToNvlist(props, nvlist, FfiGc(s1, nvlist), f)
    IN IF s1.ret # 0 THEN Raise(s1, <<"MemoryError", "nvlist_alloc failed">>)
       ELSE IF s2.err # NoErr THEN DropHandle(s2, nvlist)
       ELSE s2

\* The branch of _dict_to_nvlist for the value v of key k.
EncodeItem(k, v, nvlist, st, f) ==
    IF v.kind = "dict" THEN
        LET s1 == NvlistInEnter(v, [st EXCEPT !.ret = 0], f)
            sub_nvlist == Len(st.heap) + 1
            s2 == LibNvlistAdd(s1, f, nvlist,
                      [name |-> k, type |-> "nvlist", nv |-> s1.heap[sub_nvlist].entries])
        IN IF s1.err # NoErr THEN s1
           ELSE DropHandle(MarkAttached(s2, <<sub_nvlist>>), sub_nvlist)
    ELSE IF v.kind = "list" THEN NvlistAddArray(nvlist, k, v.elems, [st EXCEPT !.ret = 0], f)
    ELSE IF v.kind = "str" THEN
        LibNvlistAdd(st, f, nvlist, [name |-> k, type |-> "string", s |-> v.s])
    ELSE IF v.kind = "bool" THEN
        LibNvlistAdd(st, f, nvlist, [name |-> k, type |-> "boolean_value", n |-> IntOf(v)])
    ELSE IF v.kind = "NoneType" THEN
        LibNvlistAdd(st, f, nvlist, [name |-> k, type |-> "boolean"])
    ELSE IF IsIntegral(v) THEN
        AddInteger(st, f, nvlist, k, PropNameToTypeStr(k), IntOf(v))
    ELSE IF v.kind = "NvInteger" THEN
        AddInteger(st, f, nvlist, k, v.suffix, v.n)
    ELSE Raise(st, <<"TypeError", "Unsupported value type", TypeName(v)>>)

\* The loop of _nvlist_add_array over an array of dicts, from element i on:
\* the state it ends in and the containers it allocated.
AllocElems(array, i, ids, st, f) ==
    IF i > Len(array) THEN [st |-> st, ids |-> ids]
    ELSE LET s1 == LibNvlistAlloc(st, f)
             nested_nvlist == Len(s1.heap)
             s2 == DictToNvlist(array[i], nested_nvlist, FfiGc(s1, nested_nvlist), f)
         IN IF s1.ret # 0
            THEN [st |-> Raise(s1, <<"MemoryError", "nvlist_alloc failed">>), ids |-> ids]
            ELSE IF s2.err # NoErr
            THEN [st |-> s2, ids |-> Append(ids, nested_nvlist)]
            ELSE AllocElems(array, i + 1, Append(ids, nested_nvlist), s2, f)

\* _nvlist_add_array(nvlist, key, array)
NvlistAddArray(nvlist, key, array, st, f) ==
    IF Len(array) = 0 THEN SpecimenOfEmpty(st)
    ELSE
    LET specimen == array[1]
        bad == FirstMismatch(array)
    IN
    IF bad # 0 THEN
        Raise(st, <<"TypeError", "Array has elements of different types",
                    TypeName(specimen), TypeName(array[bad])>>)
    ELSE IF specimen.kind = "dict" THEN
        LET r == AllocElems(array, 1, <<>>, st, f)
            s1 == LibNvlistAdd(r.st, f, nvlist,
                      [name |-> key, type |-> "nvlist_array",
                       nva |-> [i \in DOMAIN r.ids |-> r.st.heap[r.ids[i]].entries]])
        IN IF r.st.err # NoErr THEN DropHandles(r.st, r.ids)
           ELSE DropHandles(CheckRet(MarkAttached(s1, r.ids)), r.ids)
    ELSE IF specimen.kind = "str" THEN
        CheckRet(LibNvlistAdd(st, f, nvlist,
                     [name |-> key, type |-> "string_array",
                      sa |-> [i \in DOMAIN array |-> array[i].s]]))
    ELSE IF specimen.kind = "bool" THEN
        CheckRet(AddIntegerArray(st, f, nvlist, key, "boolean_value",
                     [i \in DOMAIN array |-> IntOf(array[i])]))
    ELSE IF IsIntegral(specimen) THEN
        CheckRet(AddIntegerArray(st, f, nvlist, key, PropNameToTypeStr(key),
                     [i \in DOMAIN array |-> IntOf(array[i])]))
    ELSE IF specimen.kind = "NvInteger" THEN
        CheckRet(AddIntegerArray(st, f, nvlist, key, specimen.suffix,
                     [i \in DOMAIN array |-> array[i].n]))
    ELSE Raise(st, <<"TypeError", "Unsupported value type", TypeName(specimen)>>)

(***************************************************************************)
(* Decoding: _type_info, _nvlist_to_dict.                                  *)
(***************************************************************************)
\* The tags _type_info has an entry for; any other tag is a KeyError.
KnownTypes ==
    {"boolean", "boolean_value", "byte", "int8", "uint8", "int16", "uint16",
     "int32", "uint32", "int64", "uint64", "string", "nvlist",
     "boolean_array", "byte_array", "int8_array", "uint8_array", "int16_array",
     "uint16_array", "int32_array", "uint32_array", "int64_array",
     "uint64_array", "string_array", "nvlist_array"}

\* _type_info(typeid).convert: bool, int, _ffi.string or the nested decode.
TypeInfoConvert(typeid) ==
    CASE typeid = "boolean" -> "none"
      [] typeid \in {"boolean_value", "boolean_array"} -> "bool"
      [] typeid \in {"string", "string_array"} -> "string"
      [] typeid \in {"nvlist", "nvlist_array"} -> "nvlist"
      [] OTHER -> "int"

\* props[name] = val
DictSet(items, k, v) ==
    IF \E j \in DOMAIN items : items[j].k = k
    THEN [j \in DOMAIN items |-> IF items[j].k = k THEN Item(k, v) ELSE items[j]]
    ELSE Append(items, Item(k, v))

\* The state a decode runs in: the dict being filled, the pending exception
\* and the number of nvpair_value_* calls made.
NewDecode(calls) == [props |-> <<>>, err |-> NoErr, calls |-> calls]

\* cfunc(pair, valptr[, lenptr]); the call number g fails.
LibNvpairValue(ds, g) ==
    IF ds.calls + 1 = g
    THEN [ds EXCEPT !.calls = @ + 1, !.err = <<"RuntimeError", "nvpair_value failed">>]
    ELSE [ds EXCEPT !.calls = @ + 1]

\* ConvertScalar whose bool is that of the pointer, not of the value.
ConvertScalar_AlwaysTrue(convert, x) ==
    CASE convert = "bool" -> VBool(TRUE)
      [] convert = "int" -> VInt(x)
      [] convert = "string" -> VStr(x)

\* typeinfo.convert(x) of a scalar payload.
ConvertScalar(convert, x) ==
    CASE convert = "bool" -> VBool(x # 0)
      [] convert = "int" -> VInt(x)
      [] convert = "string" -> VStr(x)

RECURSIVE NvlistItemsToDict(_, _, _, _)
RECURSIVE ConvertNvlists(_, _, _, _, _)

\* The loop "for i in range(length): val.append(typeinfo.convert(valptr[0][i]))"
\* over an array of nvlists: [val, err, calls].
ConvertNvlists(nvs, i, acc, ds, g) ==
    IF i > Len(nvs) THEN [val |-> acc, err |-> NoErr, calls |-> ds.calls]
    ELSE LET r == NvlistItemsToDict(nvs[i], 1, NewDecode(ds.calls), g)
         IN IF r.err # NoErr THEN [val |-> acc, err |-> r.err, calls |-> r.calls]
            ELSE ConvertNvlists(nvs, i + 1, Append(acc, VDict(r.props)),
                                [ds EXCEPT !.calls = r.calls], g)

\* The body of the loop of _nvlist_to_dict for one pair: [val, err, calls].
DecodePair(pair, ds, g) ==
    LET typeid == pair.type
        convert == TypeInfoConvert(typeid)
        d1 == LibNvpairValue(ds, g)
    IN
    IF typeid \notin KnownTypes THEN
        [val |-> VNone, err |-> <<"KeyError", typeid>>, calls |-> ds.calls]
    ELSE IF NvpairTypeIsArray(typeid) THEN
        IF d1.err # NoErr THEN [val |-> VNone, err |-> d1.err, calls |-> d1.calls]
        ELSE IF convert = "nvlist" THEN
            LET r == ConvertNvlists(pair.nva, 1, <<>>, d1, g)
            IN [val |-> VList(r.val), err |-> r.err, calls |-> r.calls]
        ELSE IF convert = "string" THEN
            [val |-> VList([i \in DOMAIN pair.sa |-> ConvertScalar(convert, pair.sa[i])]),
             err |-> NoErr, calls |-> d1.calls]
        ELSE
            [val |-> VList([i \in DOMAIN pair.an |-> ConvertScalar(convert, pair.an[i])]),
             err |-> NoErr, calls |-> d1.calls]
    ELSE IF typeid = "boolean" THEN
        [val |-> VNone, err |-> NoErr, calls |-> ds.calls]
    ELSE IF d1.err # NoErr THEN [val |-> VNone, err |-> d1.err, calls |-> d1.calls]
    ELSE IF convert = "nvlist" THEN
        LET r == NvlistItemsToDict(pair.nv, 1, NewDecode(d1.calls), g)
        IN [val |-> VDict(r.props), err |-> r.err, calls |-> r.calls]
    ELSE IF convert = "string" THEN
        [val |-> ConvertScalar(convert, pair.s), err |-> NoErr, calls |-> d1.calls]
    ELSE [val |-> ConvertScalar(convert, pair.n), err |-> NoErr, calls |-> d1.calls]

\* _nvlist_to_dict(nvlist, props): the pairs from the i-th on, in storage
\* order.  nvlist_next_nvpair of a NULL nvlist is NULL: no pair.
NvlistItemsToDict(entries, i, ds, g) ==
    IF ds.err # NoErr \/ i > Len(entries) THEN ds
    ELSE LET r == DecodePair(entries[i], ds, g)
         IN IF r.err # NoErr THEN [ds EXCEPT !.err = r.err, !.calls = r.calls]
            ELSE NvlistItemsToDict(entries, i + 1,
                     [ds EXCEPT !.props = DictSet(@, VStr(entries[i].name), r.val),
                                !.calls = r.calls], g)

NvlistToDict(entries, props, g) ==
    NvlistItemsToDict(entries, 1, [props |-> props, err |-> NoErr, calls |-> 0], g)

(***************************************************************************)
(* The dictionaries the callers pass, within the bounds.                   *)
(***************************************************************************)
SeqsUpTo(S, n) == UNION {[1..m -> S] : m \in 0..n}

IntVals == {-1, 3, 300}

Scalars ==
    {VNone, VBool(TRUE), VBool(FALSE), VStr("a"), VFloat}
    \cup {VInt(n) : n \in IntVals}
    \cup {VNv(s, n) : s \in IntSuffixes, n \in IntVals}

ArrayElems ==
    {VNone, VBool(TRUE), VBool(FALSE), VInt(3), VInt(5), VNv("uint8", 3),
     VNv("uint8", 5), VNv("int32", 300), VStr("a"), VDict(<<>>),
     VDict(<<Item(VStr("x"), VInt(3))>>), VDict(<<Item(VStr("x"), VFloat)>>)}

Arrays == {VList(a) : a \in SeqsUpTo(ArrayElems, MaxLen)}

ChildVals ==
    {VInt(3), VNv("uint8", 3), VNone, VFloat, VList(<<>>),
     VList(<<VStr("a"), VBool(TRUE)>>), VList(<<VDict(<<>>)>>)}

RECURSIVE Dicts(_)
Dicts(d) ==
    IF d = 0 THEN {}
    ELSE {VDict(<<>>), VDict(<<Item(VInt(7), VNone)>>),
          VDict(<<Item(VStr("x"), VInt(3)), Item(VStr("type"), VInt(5))>>)}
         \cup {VDict(<<Item(VStr("x"), v)>>) : v \in ChildVals \cup Dicts(d - 1)}

TopKeys ==
    {VStr("rewind-request"), VStr("type"), VStr("N_MORE_ERRORS"),
     VStr("pool_context"), VStr("x"), VInt(7)}

FirstItems ==
    {Item(VStr("child"), VDict(<<>>)),
     Item(VStr("child"), VDict(<<Item(VStr("x"), VInt(3))>>)),
     Item(VStr("a"), VList(<<VDict(<<>>), VDict(<<Item(VStr("x"), VInt(3))>>)>>)),
     Item(VStr("a"), VNv("int8", 3)),
     Item(VStr("a"), VNone)}

SecondItems ==
    {Item(VStr("b"), VFloat), Item(VStr("b"), VStr("s")), Item(VStr("b"), VBool(TRUE)),
     Item(VStr("b"), VList(<<VStr("a"), VBool(TRUE)>>)), Item(VStr("b"), VList(<<>>)),
     Item(VStr("b"), VDict(<<>>))}

Records ==
    {VDict(<<>>)}
    \cup {VDict(<<Item(k, v)>>) : k \in TopKeys, v \in Scalars}
    \cup {VDict(<<Item(k, v)>>) : k \in {VStr("x"), VStr("type")}, v \in Arrays}
    \cup {VDict(<<Item(VStr("child"), v)>>) : v \in Dicts(MaxDepth)}
    \cup {VDict(<<i1, i2>>) : i1 \in FirstItems, i2 \in SecondItems}

\* What a dict given to nvlist_out holds before the scope.
PriorRecords ==
    {<<>>, <<Item(VStr("old"), VInt(1)), Item(VStr("a"), VStr("z"))>>}

\* The nvlists the native side produces other than a copy of its input.
WireContainers ==
    {<<>>,
     <<[name |-> "x", type |-> "double"]>>,
     <<[name |-> "a", type |-> "uint64", n |-> 5], [name |-> "b", type |-> "double"]>>,
     <<[name |-> "a", type |-> "uint64", n |-> 5], [name |-> "a", type |-> "string", s |-> "q"],
       [name |-> "n", type |-> "nvlist", nv |-> <<[name |-> "y", type |-> "boolean"]>>]>>}

(***************************************************************************)
(* The state machine: one use of nvlist_in and, inside its with-block, one *)
(* use of nvlist_out around a native call.                                 *)
(***************************************************************************)
VARIABLES
    props,      \* the dict given to nvlist_in
    inPc,       \* "idle", "yielded" (inside the with-block), "raised", "closed"
    enc,        \* the encode state: heap, calls, err, ret
    outProps,   \* the items of the dict given to nvlist_out
    outPc,      \* "idle", "scope" (inside the with-block), "done", "failed"
    slot,       \* nvlistp[0] of nvlist_out: ptr = 0 is NULL
    freeCalls,  \* the calls of nvlist_free nvlist_out made
    outErr,     \* the exception that left the nvlist_out scope
    echo,       \* the native side filled the slot with a copy of its input
    outPrior    \* the items the dict given to nvlist_out held before the scope

vars == <<props, inPc, enc, outProps, outPc, slot, freeCalls, outErr, echo, outPrior>>

\* The container nvlist_in yields: the first one it allocates.
InNvlist == 1

NullSlot == [ptr |-> 0, entries |-> <<>>, freed |-> 0]

Init ==
    /\ props \in Records
    /\ inPc = "idle"
    /\ enc = EmptyHeap
    /\ outProps = <<>>
    /\ outPc = "idle"
    /\ slot = NullSlot
    /\ freeCalls = 0
    /\ outErr = NoErr
    /\ echo = FALSE
    /\ outPrior = <<>>

\* with nvlist_in(props) as nvlist: the generator runs to its yield or raises.
NvlistIn(f) ==
    /\ inPc = "idle"
    /\ enc' = NvlistInEnter(props, EmptyHeap, f)
    /\ inPc' = IF enc'.err = NoErr THEN "yielded" ELSE "raised"
    /\ UNCHANGED <<props, outProps, outPc, slot, freeCalls, outErr, echo, outPrior>>

\* The with-block of nvlist_in ends, normally or by an exception of the
\* caller: the generator's frame goes away and with it the handle.
NvlistInExit ==
    /\ inPc = "yielded"
    /\ outPc # "scope"
    /\ enc' = DropHandle(enc, InNvlist)
    /\ inPc' = "closed"
    /\ UNCHANGED <<props, outProps, outPc, slot, freeCalls, outErr, echo, outPrior>>

\* with nvlist_out(props) as nvlistp: up to the yield.
NvlistOutEnter(prior) ==
    /\ inPc = "yielded"
    /\ outPc = "idle"
    /\ outProps' = prior
    /\ outPrior' = prior
    /\ slot' = NullSlot
    /\ outPc' = "scope"
    /\ UNCHANGED <<props, inPc, enc, freeCalls, outErr, echo>>

\* The native call stores a new nvlist in the slot.
ProducerFill(entries, isEcho) ==
    /\ outPc = "scope"
    /\ slot.ptr = 0
    /\ slot' = [ptr |-> 1, entries |-> entries, freed |-> 0]
    /\ echo' = isEcho
    /\ UNCHANGED <<props, inPc, enc, outProps, outPc, freeCalls, outErr, outPrior>>

\* OutFinally without the NULL guard.
OutFinally_Unguarded(s, n) ==
    [slot |-> [s EXCEPT !.freed = @ + 1], freeCalls |-> n + 1]

\* finally: if nvlistp[0] != _ffi.NULL: _lib.nvlist_free(nvlistp[0])
\* The slot and the number of nvlist_free calls after it.
OutFinally(s, n) ==
    IF s.ptr # 0
    THEN [slot |-> [s EXCEPT !.freed = @ + 1], freeCalls |-> n + 1]
    ELSE [slot |-> s, freeCalls |-> n]

\* The with-block of nvlist_out raises: the exception enters the generator
\* at its yield and only the finally clause runs.
CallerRaises ==
    /\ outPc = "scope"
    /\ slot' = OutFinally(slot, freeCalls).slot
    /\ freeCalls' = OutFinally(slot, freeCalls).freeCalls
    /\ outErr' = <<"CallerError">>
    /\ outPc' = "failed"
    /\ UNCHANGED <<props, inPc, enc, outProps, echo, outPrior>>

\* ClearAndDecode without the clear.
ClearAndDecode_NoClear(old, s, g) == NvlistToDict(s.entries, old, g)

\* props.clear(); _nvlist_to_dict(nvlistp[0], props)
ClearAndDecode(old, s, g) == NvlistToDict(s.entries, <<>>, g)

\* The with-block of nvlist_out ends normally; the accessor call number g fails.
NvlistOutExit(g) ==
    /\ outPc = "scope"
    /\ LET ds == ClearAndDecode(outProps, slot, g)
       IN /\ outProps' = ds.props
          /\ outErr' = ds.err
          /\ outPc' = IF ds.err = NoErr THEN "done" ELSE "failed"
    /\ slot' = OutFinally(slot, freeCalls).slot
    /\ freeCalls' = OutFinally(slot, freeCalls).freeCalls
    /\ UNCHANGED <<props, inPc, enc, echo, outPrior>>

Next ==
    \/ \E f \in 0..MaxFault : NvlistIn(f)
    \/ NvlistInExit
    \/ \E prior \in PriorRecords : NvlistOutEnter(prior)
    \/ ProducerFill(enc.heap[InNvlist].entries, TRUE)
    \/ \E w \in WireContainers : ProducerFill(w, FALSE)
    \/ CallerRaises
    \/ \E g \in 0..MaxFault : NvlistOutExit(g)

Spec == Init /\ [][Next]_vars

(***************************************************************************)
(* Properties.                                                             *)
(***************************************************************************)
TopItems == {props.items[i] : i \in DOMAIN props.items}

\* The pairs named name of the container nvlist_in yields.
TopEntries(name) ==
    IF enc.heap = <<>> THEN {}
    ELSE {enc.heap[InNvlist].entries[j] : j \in
            {j \in DOMAIN enc.heap[InNvlist].entries :
                enc.heap[InNvlist].entries[j].name = name}}

\* The native call echoed the encoded dict and the decode of it went through.
RoundTripDone == outPc = "done" /\ echo

OutItems == {outProps[i] : i \in DOMAIN outProps}

\* An integer variant of the value grammar: a plain or a width-tagged integer.
IsIntVariant(v) == v.kind \in {"int", "NvInteger"}

\* The wire type of a plain integer under key k, as the key-name table gives it.
PlainWidth(k) ==
    IF k \in {"rewind-request", "type"} THEN "uint32"
    ELSE IF k \in {"N_MORE_ERRORS", "pool_context"} THEN "int32"
    ELSE "uint64"

\* Two element types the array check of the value grammar takes for one.
SpecCompatible(a, b) == a.kind = b.kind \/ (IsIntVariant(a) /\ IsIntVariant(b))

RECURSIVE InGrammar(_)
\* A value of the value grammar: string keys, non-empty homogeneous arrays of
\* non-array values, integer variants interchangeable.
InGrammar(v) ==
    CASE v.kind = "dict" ->
           \A i \in DOMAIN v.items : v.items[i].k.kind = "str" /\ InGrammar(v.items[i].v)
      [] v.kind = "list" ->
           /\ Len(v.elems) >= 1
           /\ \A i \in DOMAIN v.elems :
                 /\ v.elems[i].kind # "list"
                 /\ SpecCompatible(v.elems[1], v.elems[i])
                 /\ InGrammar(v.elems[i])
      [] v.kind = "float" -> FALSE
      [] OTHER -> TRUE

RECURSIVE Encodable(_)
\* The values of the grammar whose arrays hold elements of one Python type,
\* not None, and width-tagged integers of one tag.
Encodable(v) ==
    CASE v.kind = "dict" ->
           \A i \in DOMAIN v.items : v.items[i].k.kind = "str" /\ Encodable(v.items[i].v)
      [] v.kind = "list" ->
           /\ Len(v.elems) >= 1
           /\ v.elems[1].kind \in {"bool", "int", "NvInteger", "str", "dict"}
           /\ \A i \in DOMAIN v.elems :
                 /\ v.elems[i].kind = v.elems[1].kind
                 /\ v.elems[i].kind = "NvInteger" => v.elems[i].suffix = v.elems[1].suffix
                 /\ Encodable(v.elems[i])
      [] v.kind = "float" -> FALSE
      [] OTHER -> TRUE

RECURSIVE Untagged(_)
\* v with every width-tagged integer replaced by the plain integer of its value.
Untagged(v) ==
    CASE v.kind = "NvInteger" -> VInt(v.n)
      [] v.kind = "dict" ->
           VDict([i \in DOMAIN v.items |-> Item(v.items[i].k, Untagged(v.items[i].v))])
      [] v.kind = "list" -> VList([i \in DOMAIN v.elems |-> Untagged(v.elems[i])])
      [] OTHER -> v

RECURSIVE HasTagged(_)
HasTagged(v) ==
    CASE v.kind = "NvInteger" -> TRUE
      [] v.kind = "dict" -> \E i \in DOMAIN v.items : HasTagged(v.items[i].v)
      [] v.kind = "list" -> \E i \in DOMAIN v.elems : HasTagged(v.elems[i])
      [] OTHER -> FALSE

\* An encode that raised for a failing library call or for an integer that
\* does not fit its wire type.
RaisedForResources == inPc = "raised" /\ enc.err[1] \in {"MemoryError", "OverflowError"}

\* C1 as stated: decoding the container encoded from a record of the value
\* grammar yields the record itself, as a set of (key, value) pairs.
C1_RoundTripIdentity ==
    (RoundTripDone /\ InGrammar(props)) => OutItems = TopItems

\* C1 as amended: a record of the grammar whose arrays are of one Python
\* type (not None; tagged integers of one tag) fails to encode only for a
\* failing library call or an integer out of the range of its wire type, and
\* decoding its container yields the record with every width-tagged integer
\* replaced by the plain integer of the same value, order of items and of
\* array elements kept.
C1_RoundTripUntagged ==
    Encodable(props) =>
        /\ inPc = "raised" => RaisedForResources
        /\ RoundTripDone => outProps = Untagged(props).items

C1_Witness ==
    /\ RoundTripDone
    /\ Encodable(props)
    /\ HasTagged(props)
    /\ \E it \in TopItems : it.v.kind = "list" /\ Len(it.v.elems) >= 2

SpecMismatch(array) ==
    LET bad == {i \in 2..Len(array) : ~SpecCompatible(array[1], array[i])}
    IN IF bad = {} THEN 0 ELSE CHOOSE i \in bad : \A j \in bad : i <= j

\* C3: an array with an element incompatible with its specimen makes the
\* encode raise the error naming both types (unless a library call failed
\* before), with no pair of that key in the container and no yield.
C3_HeterogeneousRejected ==
    \A it \in TopItems :
        (inPc # "idle" /\ it.k.kind = "str" /\ it.v.kind = "list"
            /\ Len(it.v.elems) >= 1 /\ SpecMismatch(it.v.elems) # 0) =>
        /\ inPc = "raised"
        /\ TopEntries(it.k.s) = {}
        /\ \/ enc.err[1] = "MemoryError"
           \/ enc.err = <<"TypeError", "Array has elements of different types",
                          TypeName(it.v.elems[1]),
                          TypeName(it.v.elems[SpecMismatch(it.v.elems)])>>

AllIntVariants(array) == \A i \in DOMAIN array : IsIntVariant(array[i])

SameTag(array) ==
    \/ \A i \in DOMAIN array : array[i].kind = "int"
    \/ \A i \in DOMAIN array :
          array[i].kind = "NvInteger" /\ array[i].suffix = array[1].suffix

\* The wire type of an integer under key k: its tag, else by the table.
WireWidth(k, v) == IF v.kind = "NvInteger" THEN v.suffix ELSE PlainWidth(k)

C6_Presence ==
    \A it \in TopItems :
        (it.k.kind = "str" /\ it.v.kind \in {"NoneType", "bool"}) =>
        /\ inPc = "yielded" =>
              TopEntries(it.k.s) =
                  {IF it.v.kind = "NoneType"
                   THEN [name |-> it.k.s, type |-> "boolean"]
                   ELSE [name |-> it.k.s, type |-> "boolean_value",
                         n |-> IF it.v.b THEN 1 ELSE 0]}
        /\ RoundTripDone => Item(it.k, it.v) \in OutItems

C6_Witness ==
    /\ RoundTripDone
    /\ \E it \in TopItems : it.v = VNone
    /\ \E it \in TopItems : it.v = VBool(TRUE)

SlotNames == {slot.entries[j].name : j \in DOMAIN slot.entries}

\* C7: after a normal exit of the nvlist_out scope the dict holds one key per
\* name of the container in the slot, the value decoded from the last pair
\* of that name, and nothing else; it is empty when the slot is still NULL.
C7_DecodeReplaces ==
    outPc = "done" =>
        /\ {outProps[i].k : i \in DOMAIN outProps} = {VStr(n) : n \in SlotNames}
        /\ Len(outProps) = Cardinality(SlotNames)
        /\ \A j \in DOMAIN slot.entries :
              (\A l \in DOMAIN slot.entries : l > j => slot.entries[l].name # slot.entries[j].name)
              => \E i \in DOMAIN outProps :
                    /\ outProps[i].k = VStr(slot.entries[j].name)
                    /\ outProps[i].v.kind =
                          (CASE slot.entries[j].type = "boolean" -> "NoneType"
                             [] slot.entries[j].type = "boolean_value" -> "bool"
                             [] slot.entries[j].type = "string" -> "str"
                             [] slot.entries[j].type = "nvlist" -> "dict"
                             [] NvpairTypeIsArray(slot.entries[j].type) -> "list"
                             [] OTHER -> "int")
        /\ slot.ptr = 0 => outProps = <<>>

C7_Witness ==
    /\ outPc = "done"
    /\ slot.ptr # 0
    /\ \E i \in DOMAIN outPrior : outPrior[i].k = VStr("old")
    /\ \E i \in DOMAIN outPrior : outPrior[i].k = VStr("a")
    /\ "a" \in SlotNames

RECURSIVE HasEmptyArray(_)
HasEmptyArray(v) ==
    CASE v.kind = "list" ->
           Len(v.elems) = 0 \/ \E i \in DOMAIN v.elems : HasEmptyArray(v.elems[i])
      [] v.kind = "dict" -> \E i \in DOMAIN v.items : HasEmptyArray(v.items[i].v)
      [] OTHER -> FALSE

\* C8: the encode of a record with a zero-length array raises; no container
\* is yielded, and when nothing else failed the error is that of the array.
C8_EmptyArrayRaises ==
    (inPc # "idle" /\ HasEmptyArray(props)) =>
        /\ inPc = "raised"
        /\ (Len(props.items) = 1 /\ props.items[1].k.kind = "str"
              /\ props.items[1].v = VList(<<>>))
           => enc.err[1] \in {"IndexError", "MemoryError"}

C8_Witness ==
    /\ inPc = "raised"
    /\ props = VDict(<<Item(VStr("x"), VList(<<>>))>>)
    /\ enc.err[1] = "IndexError"
    /\ enc.heap[InNvlist].entries = <<>>

\* C9: however the nvlist_out scope ends, the container in the slot has been
\* released exactly once when the slot was filled, and nvlist_free has not
\* been called when the slot is NULL; nothing is released inside the scope.
C9_OutRelease ==
    /\ outPc \in {"done", "failed"} =>
          IF slot.ptr # 0 THEN slot.freed = 1 /\ freeCalls = 1
          ELSE slot.freed = 0 /\ freeCalls = 0
    /\ outPc \in {"idle", "scope"} => slot.freed = 0 /\ freeCalls = 0

C9_Witness ==
    /\ outPc = "failed"
    /\ outErr[1] = "KeyError"
    /\ slot.ptr # 0
    /\ slot.freed = 1

\* C10: an array that mixes a bool with an integer, in either order, is
\* never accepted and encoded.
C10_BoolIntRejected ==
    \A it \in TopItems :
        (inPc # "idle" /\ it.k.kind = "str" /\ it.v.kind = "list"
            /\ (\E i \in DOMAIN it.v.elems : it.v.elems[i].kind = "bool")
            /\ (\E i \in DOMAIN it.v.elems : IsIntVariant(it.v.elems[i]))) =>
        /\ inPc = "raised"
        /\ TopEntries(it.k.s) = {}
====
